---- MODULE Spec2Model ----
(***************************************************************************)
(* Chat storage API: the HTTP routes of app/api/routes.py over the         *)
(* transactional access layer of app/services/chat_service.py and the two  *)
(* tables of app/models/database.py.                                       *)
(*                                                                         *)
(* One action per route.  A request is handled to completion in one step:  *)
(* the API-key dependency, the access-layer call with every commit,        *)
(* refresh and rollback it performs, and the mapping of its outcome to a   *)
(* status code.  The store may fault (raise SQLAlchemyError) at each       *)
(* statement it is sent; the set F of an action names the statements that  *)
(* fault in that request.  datetime.utcnow is a clock that never runs      *)
(* backwards and may return the same value twice.  uuid.uuid4 is a free    *)
(* choice among the identifiers; the primary key rejects a duplicate.      *)
(* The id column of chat_messages and the Document relationship are not    *)
(* part of the model.                                                      *)
(*                                                                         *)
(* Requests that run at the same time (one database session each, READ     *)
(* COMMITTED) are the processes of req: toggle_favorite, add_message and   *)
(* delete_session are split at their statements, one action per statement  *)
(* the store sees.                                                         *)
(***************************************************************************)
EXTENDS Integers, Sequences, FiniteSets, TLC

VARIABLES
    chat_sessions,   \* rows of table chat_sessions (a set of records)
    chat_messages,   \* rows of table chat_messages, in insertion (heap) order
    now,             \* last value datetime.utcnow returned
    resp,            \* what the last request's caller observed
    window,          \* requests of the client address that reached a route
                     \* handler in the current minute
    req              \* the concurrent requests: where each one is in its
                     \* access-layer operation, and what it has loaded

vars == <<chat_sessions, chat_messages, now, resp, window, req>>

\* ------------------------------------------------------------------ bounds
MaxIds == 2       \* identifiers uuid4 draws from
MaxTime == 1      \* clock values 0..MaxTime
MaxMsgs == 2      \* rows chat_messages may hold
MaxSkip == 2      \* skip values 0..MaxSkip a caller sends
MaxLimit == 2     \* limit values 1..MaxLimit a caller sends
MaxProcs == 2     \* requests handled at the same time

SessionIds == 1..MaxIds
Times == 0..MaxTime
Users == {"u1"}
Titles == {"New Chat", "Trip"}
NULL == "<null>"
Senders == {"user"}
Contents == {"hello"}

Min(a, b) == IF a < b THEN a ELSE b

\* ---------------------------------------------------------------- settings
api_key == "secret"
NoHeader == "<no header>"
Keys == {NoHeader, api_key, "invalid_key_123"}
rate_limit_per_minute == 60

\* Limiter(key_func=get_remote_address, default_limits=[".../minute"]): the
\* budget of one client address per minute.
default_limits == rate_limit_per_minute

\* The routes whose requests are checked against the limiter.
\* add_rate_limiting stores the limiter on app.state and registers the
\* handler of RateLimitExceeded; main.py adds no limiter middleware and no
\* route of routes.py is decorated with the limiter: no route is checked.
limited_routes == {}

\* ------------------------------------------------------------------ schemas
\* SessionCreate: title defaults to "New Chat" when the body leaves it out.
SessionCreate(body) ==
    [user_id |-> body.user_id,
     title |-> IF "title" \in body.fields THEN body.title ELSE "New Chat"]

CreateBodies ==
    {[fields |-> {"user_id"}, user_id |-> u, title |-> NULL] : u \in Users}
    \cup {[fields |-> {"user_id", "title"}, user_id |-> u, title |-> "New Chat"] :
              u \in Users}

\* SessionUpdate: title is optional; fields holds the names the body set.
UpdateBodies ==
    {[fields |-> {}, title |-> NULL]}
    \cup {[fields |-> {"title"}, title |-> t] : t \in Titles \cup {NULL}}

\* update_data.dict(exclude_unset=True): the fields the body set.
exclude_unset(update_data) == update_data.fields

\* ------------------------------------------------------------------- tables
\* ChatSession(**session_data.dict()) with the column defaults, as inserted.
ChatSession(session_data, id, t_created, t_updated) ==
    [id |-> id,
     user_id |-> session_data.user_id,
     title |-> session_data.title,
     is_favorite |-> FALSE,
     has_documents |-> FALSE,
     created_at |-> t_created,
     updated_at |-> t_updated]

\* (variant: every commit of a loaded session stamps updated_at)
onupdate_always(old, new, t) == [new EXCEPT !.updated_at = t]

\* Column updated_at, onupdate=datetime.utcnow: an UPDATE is emitted only for
\* a row with a net change, and it then sets updated_at to the clock.
onupdate(old, new, t) ==
    IF new = old THEN old ELSE [new EXCEPT !.updated_at = t]

\* Column title, nullable=False: the store rejects a NULL title.
violates_not_null(row) == row.title = NULL

\* Primary key of chat_sessions: the store rejects a second row with the id.
violates_primary_key(rows, id) == \E r \in rows : r.id = id

\* (variant: no cascade, the messages of a deleted session stay)
cascade_none(messages, session_id) == messages

\* relationship(..., cascade="all, delete-orphan"): deleting the session
\* deletes the messages that reference it.
cascade(messages, session_id) ==
    SelectSeq(messages, LAMBDA m : m.session_id # session_id)

\* The transactional handle a request gets from get_db.
get_db == [sessions |-> chat_sessions, messages |-> chat_messages, txn |-> "none"]

\* query.first(): a matching row, or none.
first(rows) == IF rows = {} THEN <<>> ELSE <<CHOOSE r \in rows : TRUE>>

\* ------------------------------------------------------------ access layer
\* Every operation returns
\*   ret      <<>> for None / False, else the returned value(s)
\*   raised   whether SQLAlchemyError left the operation
\*   db       the handle afterwards (tables and transaction state)
\*   faults   the statements that faulted
\*   reads    reads of the target session attempted
\*   rollbacks  db.rollback() calls made
\*   clock    the clock after the operation
\* resp.msgs_before is the number of chat_messages rows before the request.

\* (variant: a faulted read is not retried)
get_session_no_retry(db, session_id, F) ==
    IF "first" \notin F
    THEN [ret |-> first({r \in db.sessions : r.id = session_id}), raised |-> FALSE,
          db |-> [db EXCEPT !.txn = "active"], faults |-> {}, reads |-> 1,
          rollbacks |-> 0]
    ELSE [ret |-> <<>>, raised |-> FALSE, db |-> [db EXCEPT !.txn = "none"],
          faults |-> {"first"}, reads |-> 1, rollbacks |-> 1]

get_session(db, session_id, F) ==
    LET found == first({r \in db.sessions : r.id = session_id}) IN
    IF "first" \notin F
    THEN [ret |-> found, raised |-> FALSE, db |-> [db EXCEPT !.txn = "active"],
          faults |-> {}, reads |-> 1, rollbacks |-> 0]
    ELSE IF "retry" \notin F
    THEN [ret |-> found, raised |-> FALSE, db |-> [db EXCEPT !.txn = "active"],
          faults |-> {"first"}, reads |-> 2, rollbacks |-> 1]
    ELSE [ret |-> <<>>, raised |-> FALSE, db |-> [db EXCEPT !.txn = "failed"],
          faults |-> {"first", "retry"}, reads |-> 2, rollbacks |-> 1]

create_session(db, session_data, F, id, t_created, t_updated) ==
    LET row == ChatSession(session_data, id, t_created, t_updated) IN
    IF "commit" \in F \/ violates_primary_key(db.sessions, id)
    THEN [ret |-> <<>>, raised |-> TRUE, db |-> [db EXCEPT !.txn = "none"],
          faults |-> {"commit"}, reads |-> 0, rollbacks |-> 1, clock |-> now]
    ELSE LET db2 == [db EXCEPT !.sessions = @ \cup {row}] IN
         IF "refresh" \in F
         THEN [ret |-> <<>>, raised |-> TRUE, db |-> [db2 EXCEPT !.txn = "none"],
               faults |-> {"refresh"}, reads |-> 0, rollbacks |-> 1,
               clock |-> t_updated]
         ELSE [ret |-> <<row>>, raised |-> FALSE,
               db |-> [db2 EXCEPT !.txn = "active"],
               faults |-> {}, reads |-> 0, rollbacks |-> 0, clock |-> t_updated]

\* db.commit(); db.refresh(session) of a loaded session row `old` that the
\* operation changed to `new` (lines 55-56 and 68-69).
commit_refresh(g, old, new, F, t) ==
    LET dirty == new # old
        stored == onupdate(old, new, t)
        db2 == [g.db EXCEPT !.sessions = (@ \ {old}) \cup {stored}]
        clock2 == IF dirty THEN t ELSE now
    IN
    IF "commit" \in F \/ (dirty /\ violates_not_null(new))
    THEN [ret |-> <<>>, raised |-> TRUE, db |-> [g.db EXCEPT !.txn = "none"],
          faults |-> g.faults \cup {"commit"}, reads |-> g.reads,
          rollbacks |-> g.rollbacks + 1, clock |-> now]
    ELSE IF "refresh" \in F
    THEN [ret |-> <<>>, raised |-> TRUE, db |-> [db2 EXCEPT !.txn = "none"],
          faults |-> g.faults \cup {"refresh"}, reads |-> g.reads,
          rollbacks |-> g.rollbacks + 1, clock |-> clock2]
    ELSE [ret |-> <<stored>>, raised |-> FALSE, db |-> [db2 EXCEPT !.txn = "active"],
          faults |-> g.faults, reads |-> g.reads, rollbacks |-> g.rollbacks,
          clock |-> clock2]

\* The session was not found: the operation returns None / False.
not_found(g) ==
    [ret |-> <<>>, raised |-> FALSE, db |-> g.db, faults |-> g.faults,
     reads |-> g.reads, rollbacks |-> g.rollbacks, clock |-> now]

update_session(db, session_id, update_data, F, t) ==
    LET g == get_session(db, session_id, F) IN
    IF g.ret = <<>> THEN not_found(g)
    ELSE LET session == g.ret[1]
             changed == IF "title" \in exclude_unset(update_data)
                        THEN [session EXCEPT !.title = update_data.title]
                        ELSE session
         IN commit_refresh(g, session, changed, F, t)

\* (variant: the flag is set, not negated)
toggle_favorite_sets(db, session_id, F, t) ==
    LET g == get_session(db, session_id, F) IN
    IF g.ret = <<>> THEN not_found(g)
    ELSE LET session == g.ret[1]
             changed == [session EXCEPT !.is_favorite = TRUE]
         IN commit_refresh(g, session, changed, F, t)

toggle_favorite(db, session_id, F, t) ==
    LET g == get_session(db, session_id, F) IN
    IF g.ret = <<>> THEN not_found(g)
    ELSE LET session == g.ret[1]
             changed == [session EXCEPT !.is_favorite = ~session.is_favorite]
         IN commit_refresh(g, session, changed, F, t)

delete_session(db, session_id, F) ==
    LET g == get_session(db, session_id, F) IN
    IF g.ret = <<>> THEN not_found(g)
    ELSE LET session == g.ret[1] IN
         IF "commit" \in F
         THEN [ret |-> <<>>, raised |-> TRUE, db |-> [g.db EXCEPT !.txn = "none"],
               faults |-> g.faults \cup {"commit"}, reads |-> g.reads,
               rollbacks |-> g.rollbacks + 1, clock |-> now]
         ELSE [ret |-> <<TRUE>>, raised |-> FALSE,
               db |-> [g.db EXCEPT !.sessions = @ \ {session},
                                   !.messages = cascade(@, session_id),
                                   !.txn = "none"],
               faults |-> g.faults, reads |-> g.reads,
               rollbacks |-> g.rollbacks, clock |-> now]

\* ----------------------------------------------------------------- messages
\* context_metadata documents: a document is a set of <<key, value>> pairs;
\* an optional document is <<>> (None) or <<document>>.
EmptyDoc == {}
LangDoc == {<<"lang", "en">>}
MetaInputs == {<<>>, <<EmptyDoc>>, <<LangDoc>>}

\* Python truth value of an Optional[dict]: None and {} are false.
truthy(md) == md # <<>> /\ md[1] # {}

\* json.dumps of a document, and json.loads of a stored text.
json_dumps(doc) == IF doc = {} THEN "{}" ELSE "{\"lang\": \"en\"}"
json_loads(text) == IF text = "{}" THEN EmptyDoc ELSE LangDoc

MessageBodies ==
    [sender : Senders, content : Contents, context_metadata : MetaInputs]

\* str.lower of a sender; the schema admits the lowercase values only.
lower(sender) ==
    CASE sender = "USER" -> "user"
      [] sender = "ASSISTANT" -> "assistant"
      [] OTHER -> sender

ChatMessage(session_id, message_data, t) ==
    [session_id |-> session_id,
     sender |-> lower(message_data.sender),
     content |-> message_data.content,
     context_metadata |-> IF truthy(message_data.context_metadata)
                          THEN <<json_dumps(message_data.context_metadata[1])>>
                          ELSE <<>>,
     created_at |-> t]

\* (variant: the row is inserted without the existence check)
add_message_unchecked(db, session_id, message_data, F, t) ==
    LET g == get_session(db, session_id, F)
        db_message == ChatMessage(session_id, message_data, t)
    IN [ret |-> <<db_message>>, raised |-> FALSE,
        db |-> [g.db EXCEPT !.messages = Append(@, db_message), !.txn = "active"],
        faults |-> g.faults, reads |-> g.reads, rollbacks |-> g.rollbacks,
        clock |-> t]

add_message(db, session_id, message_data, F, t) ==
    LET g == get_session(db, session_id, F) IN
    IF g.ret = <<>> THEN not_found(g)
    ELSE LET db_message == ChatMessage(session_id, message_data, t)
             db2 == [g.db EXCEPT !.messages = Append(@, db_message)]
         IN
         IF "commit" \in F
         THEN [ret |-> <<>>, raised |-> TRUE, db |-> [g.db EXCEPT !.txn = "none"],
               faults |-> g.faults \cup {"commit"}, reads |-> g.reads,
               rollbacks |-> g.rollbacks + 1, clock |-> now]
         ELSE IF "refresh" \in F
         THEN [ret |-> <<>>, raised |-> TRUE, db |-> [db2 EXCEPT !.txn = "none"],
               faults |-> g.faults \cup {"refresh"}, reads |-> g.reads,
               rollbacks |-> g.rollbacks + 1, clock |-> t]
         ELSE [ret |-> <<db_message>>, raised |-> FALSE,
               db |-> [db2 EXCEPT !.txn = "active"],
               faults |-> g.faults, reads |-> g.reads,
               rollbacks |-> g.rollbacks, clock |-> t]

\* The permutations of 1..n.
Perms(n) == {p \in [1..n -> 1..n] : \A i, j \in 1..n : p[i] = p[j] => i = j}

\* ORDER BY created_at: the orders the store may return the rows in. Rows
\* with equal created_at come in any order.
order_by_created_at(rows) ==
    LET n == Len(rows)
        all == {[i \in 1..n |-> rows[p[i]]] : p \in Perms(n)}
    IN {s \in all : \A i \in 1..n - 1 : s[i].created_at <= s[i + 1].created_at}

\* (variant: the offset is applied one row early)
offset_limit_early(rows, skip, limit) ==
    SubSeq(rows, IF skip = 0 THEN 1 ELSE skip, Min(skip + limit, Len(rows)))

\* .offset(skip).limit(limit)
offset_limit(rows, skip, limit) == SubSeq(rows, skip + 1, Min(skip + limit, Len(rows)))

\* filter(ChatMessage.session_id == session_id), in heap order
filter_session(messages, session_id) ==
    SelectSeq(messages, LAMBDA m : m.session_id = session_id)

\* `ordered` is the order the store returns the ORDER BY query's rows in.
get_messages(db, session_id, skip, limit, F, ordered) ==
    LET query == filter_session(db.messages, session_id) IN
    IF "count" \in F
    THEN [ret |-> <<>>, total |-> 0, raised |-> FALSE,
          db |-> [db EXCEPT !.txn = "none"], faults |-> {"count"}, reads |-> 0,
          rollbacks |-> 1, clock |-> now]
    ELSE IF "all" \in F
    THEN [ret |-> <<>>, total |-> 0, raised |-> FALSE,
          db |-> [db EXCEPT !.txn = "none"], faults |-> {"all"}, reads |-> 0,
          rollbacks |-> 1, clock |-> now]
    ELSE [ret |-> offset_limit(ordered, skip, limit), total |-> Len(query),
          raised |-> FALSE, db |-> [db EXCEPT !.txn = "active"], faults |-> {},
          reads |-> 0, rollbacks |-> 0, clock |-> now]

\* ORDER BY created_at DESC over the sessions of a user.
order_by_created_at_desc(rows) ==
    LET n == Cardinality(rows)
        all == {s \in [1..n -> rows] : \A i, j \in 1..n : s[i] = s[j] => i = j}
    IN {s \in all : \A i \in 1..n - 1 : s[i].created_at >= s[i + 1].created_at}

get_sessions(db, user_id, F, ordered) ==
    IF "all" \in F
    THEN [ret |-> <<>>, raised |-> TRUE, db |-> [db EXCEPT !.txn = "none"],
          faults |-> {"all"}, reads |-> 0, rollbacks |-> 1, clock |-> now]
    ELSE [ret |-> ordered, raised |-> FALSE, db |-> [db EXCEPT !.txn = "active"],
          faults |-> {}, reads |-> 0, rollbacks |-> 0, clock |-> now]

\* ------------------------------------------------------------------- routes
\* Router dependency verify_api_key(x_api_key: str = Header(...)): the status
\* the dependency ends the request with, or 200 when it lets the request on.
\* A request without the required header fails parameter validation.
verify_api_key(x_api_key) ==
    IF x_api_key = NoHeader THEN 422
    ELSE IF x_api_key # api_key THEN 401
    ELSE 200

\* The routes that answer 404 for a None / False result and 500 for a
\* SQLAlchemyError (get, update, favorite, delete, add message).
status_or_404(r) ==
    IF r.raised THEN 500 ELSE IF r.ret = <<>> THEN 404 ELSE 200

\* The routes that return the result as it is (create, list sessions).
status_or_500(r) == IF r.raised THEN 500 ELSE 200

\* "Convert JSON string back to dict" of the message routes.
to_response(message) ==
    IF message.context_metadata # <<>>
    THEN [message EXCEPT !.context_metadata = <<json_loads(@[1])>>]
    ELSE message

NoResp ==
    [op |-> "none", key |-> api_key, sid |-> 0, status |-> 0, invoked |-> FALSE,
     body |-> <<>>, total |-> 0, msgs_before |-> 0, faults |-> {},
     reads |-> 0, rollbacks |-> 0, txn |-> "none"]

\* The request ended in the dependency: no handler ran.
Reject(op, key, sid) ==
    /\ resp' = [NoResp EXCEPT !.op = op, !.key = key, !.sid = sid,
                              !.status = verify_api_key(key)]
    /\ UNCHANGED <<chat_sessions, chat_messages, now>>

\* What the caller observes of a handled request.
Response(op, key, sid, status, body, r) ==
    [NoResp EXCEPT !.op = op, !.key = key, !.sid = sid, !.status = status,
                   !.invoked = TRUE, !.body = body, !.faults = r.faults,
                   !.reads = r.reads, !.rollbacks = r.rollbacks,
                   !.txn = r.db.txn, !.msgs_before = Len(chat_messages)]

\* The store and the clock after the access-layer operation with result r.
Store(r) ==
    /\ chat_sessions' = r.db.sessions
    /\ chat_messages' = r.db.messages
    /\ now' = r.clock

Answer(op, key, sid, status, body, r) ==
    /\ Store(r)
    /\ resp' = Response(op, key, sid, status, body, r)

\* No response is in flight: the caller sends its next request.
Idle == resp = NoResp

\* The statements of a request that may fault: F is the set that does.
ReadFaults == {{}, {"first"}, {"first", "retry"}}
WriteFaults == {{}, {"commit"}, {"refresh"}}
ReadWriteFaults ==
    {a \cup b : a \in {{}, {"first"}}, b \in WriteFaults} \cup {{"first", "retry"}}

CreateSession ==
    /\ Idle
    /\ \E key \in Keys :
        IF verify_api_key(key) # 200 THEN Reject("create_session", key, 0)
        ELSE \E body \in CreateBodies, F \in WriteFaults, id \in SessionIds,
                t1 \in now..MaxTime :
                 \E t2 \in t1..MaxTime :
                     LET r == create_session(get_db, SessionCreate(body), F, id, t1, t2)
                     IN Answer("create_session", key, 0, status_or_500(r), r.ret, r)

ListSessions ==
    /\ Idle
    /\ \E key \in Keys :
        IF verify_api_key(key) # 200 THEN Reject("list_sessions", key, 0)
        ELSE \E user_id \in Users, F \in {{}, {"all"}} :
                 \E ordered \in order_by_created_at_desc(
                                    {x \in chat_sessions : x.user_id = user_id}) :
                     LET r == get_sessions(get_db, user_id, F, ordered)
                     IN Answer("list_sessions", key, 0, status_or_500(r), r.ret, r)

GetSession ==
    /\ Idle
    /\ \E key \in Keys :
        IF verify_api_key(key) # 200 THEN Reject("get_session", key, 0)
        ELSE \E session_id \in SessionIds, F \in ReadFaults :
                 LET g == get_session(get_db, session_id, F)
                     r == g @@ [clock |-> now]
                 IN Answer("get_session", key, session_id, status_or_404(r), r.ret, r)

UpdateSession ==
    /\ Idle
    /\ \E key \in Keys :
        IF verify_api_key(key) # 200 THEN Reject("update_session", key, 0)
        ELSE \E session_id \in SessionIds, update_data \in UpdateBodies,
                F \in ReadWriteFaults, t \in now..MaxTime :
                 LET r == update_session(get_db, session_id, update_data, F, t)
                 IN Answer("update_session", key, session_id, status_or_404(r),
                           r.ret, r)

ToggleFavorite ==
    /\ Idle
    /\ \E key \in Keys :
        IF verify_api_key(key) # 200 THEN Reject("toggle_favorite", key, 0)
        ELSE \E session_id \in SessionIds, F \in ReadWriteFaults, t \in now..MaxTime :
                 LET r == toggle_favorite(get_db, session_id, F, t)
                 IN Answer("toggle_favorite", key, session_id, status_or_404(r),
                           r.ret, r)

DeleteSession ==
    /\ Idle
    /\ \E key \in Keys :
        IF verify_api_key(key) # 200 THEN Reject("delete_session", key, 0)
        ELSE \E session_id \in SessionIds, F \in ReadWriteFaults :
                 LET r == delete_session(get_db, session_id, F)
                 IN Answer("delete_session", key, session_id, status_or_404(r),
                           r.ret, r)

AddMessage ==
    /\ Idle
    /\ Len(chat_messages) < MaxMsgs
    /\ \E key \in Keys :
        IF verify_api_key(key) # 200 THEN Reject("add_message", key, 0)
        ELSE \E session_id \in SessionIds, message_data \in MessageBodies,
                F \in ReadWriteFaults, t \in now..MaxTime :
                 LET r == add_message(get_db, session_id, message_data, F, t)
                     body == IF r.ret = <<>> THEN <<>>
                             ELSE <<to_response(r.ret[1])>>
                 IN Answer("add_message", key, session_id, status_or_404(r), body, r)

GetMessages ==
    /\ Idle
    /\ \E key \in Keys :
        IF verify_api_key(key) # 200 THEN Reject("get_messages", key, 0)
        ELSE \E session_id \in SessionIds, F \in {{}, {"count"}, {"all"}} :
                 LET query == filter_session(chat_messages, session_id)
                     \* a faulted query returns no rows: its order is immaterial
                     orders == IF F = {} THEN order_by_created_at(query) ELSE {query}
                     skips == IF F = {} THEN 0..MaxSkip ELSE {0}
                     limits == IF F = {} THEN 1..MaxLimit ELSE {1}
                 IN \E ordered \in orders, skip \in skips, limit \in limits :
                        LET r == get_messages(get_db, session_id, skip, limit, F,
                                              ordered)
                            body == [i \in 1..Len(r.ret) |-> to_response(r.ret[i])]
                        IN /\ Store(r)
                           /\ resp' = [Response("get_messages", key, session_id,
                                                200, body, r)
                                           EXCEPT !.total = r.total]

\* ------------------------------------------------------ concurrent requests
\* Requests handled at the same time: each has its own database session from
\* get_db and so its own transaction.  The store runs the statements of the
\* transactions one at a time, each seeing what is committed when it runs
\* (the isolation of the PostgreSQL store the UUID columns are declared for);
\* db.commit() sends the pending INSERT / UPDATE / DELETE and commits them in
\* one step, which the row locks of the store make indivisible for the other
\* transactions.  A request p is at req[p].pc:
\*   "idle"       not sent yet
\*   "read"       get_session returned the session, kept in req[p].session
\*   "cascaded"   db.delete(session) loaded the session's messages
\*   "committed"  db.commit() returned
\*   "returned"   the operation returned or raised; req[p].status is the answer
Procs == 1..MaxProcs

NoReq ==
    [pc |-> "idle", op |-> "none", sid |-> 0, session |-> <<>>, loaded |-> <<>>,
     inserted |-> FALSE, status |-> 0]

ConcurrentOps == {"toggle_favorite", "add_message", "delete_session"}

\* (variant: the store does not enforce the foreign key)
violates_foreign_key_never(sessions, message) == FALSE

\* session_id = Column(..., ForeignKey("chat_sessions.id")): an inserted
\* message must reference a stored session.
violates_foreign_key(sessions, message) ==
    \A s \in sessions : s.id # message.session_id

\* The same foreign key when the session row is deleted: a message of the
\* session that was committed after the cascade loaded `loaded`, and so is not
\* deleted with them, still references the row.
restricts_delete(messages, session_id, loaded) ==
    Len(filter_session(messages, session_id)) > Len(loaded)

\* The operation of request p returns or raises: the route answers `status`.
Return(p, status) == [req EXCEPT ![p].pc = "returned", ![p].status = status]

\* session = self.get_session(db, session_id), first statement of
\* toggle_favorite, delete_session and add_message; None ends the operation.
\* The requests are numbered in the order of their first statement.
Read(p) ==
    /\ Idle
    /\ req[p].pc = "idle"
    /\ \A q \in 1..(p - 1) : req[q].pc # "idle"
    /\ \E op \in ConcurrentOps, session_id \in SessionIds :
           LET g == get_session(get_db, session_id, {}) IN
           req' = [req EXCEPT ![p] =
                      IF g.ret = <<>>
                      THEN [NoReq EXCEPT !.pc = "returned", !.op = op,
                                         !.sid = session_id, !.status = 404]
                      ELSE [NoReq EXCEPT !.pc = "read", !.op = op,
                                         !.sid = session_id, !.session = g.ret]]
    /\ UNCHANGED <<chat_sessions, chat_messages, now, resp, window>>

\* session.is_favorite = not session.is_favorite; db.commit(): the UPDATE
\* sets the columns the request changed on the row as it is stored now.  A
\* row that is gone makes the UPDATE match nothing (StaleDataError).
ToggleCommit(p) ==
    /\ req[p].pc = "read"
    /\ req[p].op = "toggle_favorite"
    /\ LET session == req[p].session[1]
           rows == {s \in chat_sessions : s.id = req[p].sid}
       IN IF rows = {}
          THEN /\ req' = Return(p, 500)
               /\ UNCHANGED <<chat_sessions, now>>
          ELSE \E t \in now..MaxTime :
                   LET cur == CHOOSE s \in rows : TRUE
                       changed == onupdate(session,
                                      [session EXCEPT !.is_favorite = ~session.is_favorite],
                                      t)
                       new == [cur EXCEPT !.is_favorite = changed.is_favorite,
                                          !.updated_at = changed.updated_at]
                   IN /\ chat_sessions' = (chat_sessions \ {cur}) \cup {new}
                      /\ now' = t
                      /\ req' = [req EXCEPT ![p].pc = "committed"]
    /\ UNCHANGED <<chat_messages, resp, window>>

\* db.add(db_message); db.commit(): the INSERT and its commit.
AddCommit(p) ==
    /\ req[p].pc = "read"
    /\ req[p].op = "add_message"
    /\ Len(chat_messages) < MaxMsgs
    /\ \E message_data \in MessageBodies, t \in now..MaxTime :
           LET db_message == ChatMessage(req[p].sid, message_data, t) IN
           IF violates_foreign_key(chat_sessions, db_message)
           THEN /\ req' = Return(p, 500)
                /\ UNCHANGED <<chat_messages, now>>
           ELSE /\ chat_messages' = Append(chat_messages, db_message)
                /\ now' = t
                /\ req' = [req EXCEPT ![p].pc = "committed", ![p].inserted = TRUE]
    /\ UNCHANGED <<chat_sessions, resp, window>>

\* db.refresh(...) and return: the row as stored now; a row that is gone
\* raises InvalidRequestError (a message is gone when its session is).
Refresh(p) ==
    /\ req[p].pc = "committed"
    /\ LET rows == {s \in chat_sessions : s.id = req[p].sid} IN
       req' = IF rows = {}
              THEN Return(p, 500)
              ELSE [Return(p, 200) EXCEPT ![p].session = <<CHOOSE s \in rows : TRUE>>]
    /\ UNCHANGED <<chat_sessions, chat_messages, now, resp, window>>

\* db.delete(session): the delete cascade loads the messages of the session.
DeleteLoad(p) ==
    /\ req[p].pc = "read"
    /\ req[p].op = "delete_session"
    /\ req' = [req EXCEPT ![p].pc = "cascaded",
                          ![p].loaded = filter_session(chat_messages, req[p].sid)]
    /\ UNCHANGED <<chat_sessions, chat_messages, now, resp, window>>

\* db.commit() of delete_session: DELETE of the loaded messages and of the
\* session row.  Rows another request deleted meanwhile match nothing (a
\* warning, no error); a message the cascade did not load fails the DELETE of
\* the session row, and the rollback keeps every row.
DeleteCommit(p) ==
    /\ req[p].pc = "cascaded"
    /\ LET rows == {s \in chat_sessions : s.id = req[p].sid} IN
       IF rows = {}
       THEN /\ req' = Return(p, 200)
            /\ UNCHANGED <<chat_sessions, chat_messages>>
       ELSE IF restricts_delete(chat_messages, req[p].sid, req[p].loaded)
       THEN /\ req' = Return(p, 500)
            /\ UNCHANGED <<chat_sessions, chat_messages>>
       ELSE /\ chat_sessions' = chat_sessions \ rows
            /\ chat_messages' = cascade(chat_messages, req[p].sid)
            /\ req' = Return(p, 200)
    /\ UNCHANGED <<now, resp, window>>

\* None of the concurrent requests has been sent yet.
Quiet == \A p \in Procs : req[p].pc = "idle"

Init ==
    /\ chat_sessions = {}
    /\ chat_messages = <<>>
    /\ now = 0
    /\ resp = NoResp
    /\ window = 0
    /\ req = [p \in Procs |-> NoReq]

\* The caller receives the response in flight.
Deliver ==
    /\ ~Idle
    /\ resp' = NoResp
    /\ UNCHANGED <<chat_sessions, chat_messages, now>>

\* The routes; the requests of the minute are not counted.
Next ==
    \/ CreateSession /\ UNCHANGED <<window, req>>
    \/ ListSessions /\ UNCHANGED <<window, req>>
    \/ GetSession /\ UNCHANGED <<window, req>>
    \/ UpdateSession /\ UNCHANGED <<window, req>>
    \/ ToggleFavorite /\ UNCHANGED <<window, req>>
    \/ DeleteSession /\ UNCHANGED <<window, req>>
    \/ AddMessage /\ UNCHANGED <<window, req>>
    \/ GetMessages /\ UNCHANGED <<window, req>>
    \/ Deliver /\ UNCHANGED <<window, req>>

Spec == Init /\ [][Next]_vars

\* The session routes alone (no message is ever stored).
NextSessions ==
    \/ CreateSession /\ UNCHANGED <<window, req>>
    \/ ListSessions /\ UNCHANGED <<window, req>>
    \/ GetSession /\ UNCHANGED <<window, req>>
    \/ UpdateSession /\ UNCHANGED <<window, req>>
    \/ ToggleFavorite /\ UNCHANGED <<window, req>>
    \/ DeleteSession /\ UNCHANGED <<window, req>>
    \/ Deliver /\ UNCHANGED <<window, req>>

SpecSessions == Init /\ [][NextSessions]_vars

\* The message routes, with the route that creates their sessions.
NextMessages ==
    \/ CreateSession /\ UNCHANGED <<window, req>>
    \/ AddMessage /\ UNCHANGED <<window, req>>
    \/ GetMessages /\ UNCHANGED <<window, req>>
    \/ Deliver /\ UNCHANGED <<window, req>>

SpecMessages == Init /\ [][NextMessages]_vars

\* The routes that create and delete sessions and that add their messages.
NextCascade ==
    \/ CreateSession /\ UNCHANGED <<window, req>>
    \/ DeleteSession /\ UNCHANGED <<window, req>>
    \/ AddMessage /\ UNCHANGED <<window, req>>
    \/ Deliver /\ UNCHANGED <<window, req>>

SpecCascade == Init /\ [][NextCascade]_vars

\* One client address sending requests to the session routes, its requests
\* of the current minute counted.  A request that reaches a route handler
\* is one no limiter rejected.
Counted ==
    /\ window <= rate_limit_per_minute
    /\ window' = IF resp'.invoked /\ resp'.op \notin limited_routes
                 THEN window + 1 ELSE window
    /\ UNCHANGED req

\* The minute of the limiter's window is over.
NewMinute ==
    /\ Idle
    /\ window > 0
    /\ window' = 0
    /\ UNCHANGED <<chat_sessions, chat_messages, now, resp, req>>

NextRateLimit ==
    \/ CreateSession /\ Counted
    \/ ListSessions /\ Counted
    \/ GetSession /\ Counted
    \/ Deliver /\ UNCHANGED <<window, req>>
    \/ NewMinute

SpecRateLimit == Init /\ [][NextRateLimit]_vars

\* Sessions are created one request after the other; then requests that
\* toggle, add to and delete these sessions are handled at the same time.
NextConcurrent ==
    \/ CreateSession /\ Quiet /\ UNCHANGED <<window, req>>
    \/ Deliver /\ UNCHANGED <<window, req>>
    \/ \E p \in Procs : Read(p)
    \/ \E p \in Procs : ToggleCommit(p)
    \/ \E p \in Procs : AddCommit(p)
    \/ \E p \in Procs : Refresh(p)
    \/ \E p \in Procs : DeleteLoad(p)
    \/ \E p \in Procs : DeleteCommit(p)

SpecConcurrent == Init /\ [][NextConcurrent]_vars

\* ------------------------------------------------------------------- claims
Row(session_id) == {s \in chat_sessions : s.id = session_id}
Exists(session_id) == Row(session_id) # {}
MessagesOf(session_id) ==
    {i \in 1..Len(chat_messages) : chat_messages[i].session_id = session_id}

\* The handle the next request gets over the store an operation left.
next_db(r) == [r.db EXCEPT !.txn = "none"]

Routes ==
    {"create_session", "list_sessions", "get_session", "update_session",
     "toggle_favorite", "delete_session", "add_message", "get_messages"}

\* C1: a request to any route whose X-API-Key header is missing or differs
\* from the configured key is answered 401 and reaches no access-layer
\* operation; only a request with the matching key reaches the access layer.
C1_Unauthorized ==
    resp.op \in Routes =>
        /\ resp.key # api_key => (resp.status = 401 /\ ~resp.invoked)
        /\ resp.invoked => resp.key = api_key

\* C2: without a storage fault, the first of two successive favorite toggles
\* of an existing session returns the negated flag and the second returns the
\* flag as it was before the first; a toggle of an id that has no session is
\* answered not found and changes no table.
C2_ToggleTwice ==
    \A session_id \in SessionIds, t1 \in now..MaxTime :
        IF Exists(session_id)
        THEN \A t2 \in t1..MaxTime :
                 LET before == CHOOSE s \in Row(session_id) : TRUE
                     r1 == toggle_favorite(get_db, session_id, {}, t1)
                     r2 == toggle_favorite(next_db(r1), session_id, {}, t2)
                 IN /\ status_or_404(r1) = 200
                    /\ r1.ret[1].is_favorite = ~before.is_favorite
                    /\ status_or_404(r2) = 200
                    /\ r2.ret[1].is_favorite = before.is_favorite
                    /\ \E s \in r2.db.sessions :
                           s.id = session_id /\ s.is_favorite = before.is_favorite
        ELSE \A F \in ReadWriteFaults :
                 LET r == toggle_favorite(get_db, session_id, F, t1)
                 IN /\ status_or_404(r) = 404
                    /\ r.db.sessions = chat_sessions
                    /\ r.db.messages = chat_messages

\* A second toggle has answered with the flag back at its initial FALSE.
C2_Witness ==
    /\ resp.op = "toggle_favorite"
    /\ resp.status = 200
    /\ resp.faults = {}
    /\ resp.body[1].is_favorite = FALSE

\* C3: once Delete of an existing session has answered "deleted", the session
\* is not found by Get (whatever faults) and no message of it is stored or
\* listed; Delete of an id that has no session is answered not found, never a
\* server error, and changes no table (stated of the store between two
\* requests: every store the service reaches is the store of such a state).
C3_DeleteCascades ==
    /\ (resp.op = "delete_session" /\ resp.status = 200) =>
           /\ ~Exists(resp.sid)
           /\ MessagesOf(resp.sid) = {}
           /\ \A F \in ReadFaults :
                  status_or_404(get_session(get_db, resp.sid, F)
                                    @@ [clock |-> now]) = 404
           /\ \A skip \in 0..MaxSkip, limit \in 1..MaxLimit :
                  LET r == get_messages(get_db, resp.sid, skip, limit, {},
                                        filter_session(chat_messages, resp.sid))
                  IN r.ret = <<>> /\ r.total = 0
    /\ \A session_id \in SessionIds, F \in ReadWriteFaults :
           (Idle /\ ~Exists(session_id)) =>
               LET r == delete_session(get_db, session_id, F)
               IN /\ status_or_404(r) = 404
                  /\ r.db.sessions = chat_sessions
                  /\ r.db.messages = chat_messages

\* A Delete answered "deleted" removed messages and left another session's.
C3_Witness ==
    /\ resp.op = "delete_session"
    /\ resp.status = 200
    /\ Len(chat_messages) < resp.msgs_before
    /\ Len(chat_messages) > 0

\* C4: Add to an id that has no session is answered not found, not an error,
\* and changes no table; a message row is inserted only when the existence
\* check of the same call found the session (stated of an Add to the store
\* between two requests, which every store the service reaches is).
C4_AddNeedsSession ==
    Idle =>
    \A session_id \in SessionIds, message_data \in MessageBodies,
       F \in ReadWriteFaults, t \in now..MaxTime :
        LET r == add_message(get_db, session_id, message_data, F, t)
        IN /\ ~Exists(session_id) =>
                  /\ status_or_404(r) = 404
                  /\ r.db.sessions = chat_sessions
                  /\ r.db.messages = chat_messages
           /\ r.db.messages # chat_messages =>
                  /\ get_session(get_db, session_id, F).ret # <<>>
                  /\ Exists(session_id)
                  /\ r.db.sessions = chat_sessions

\* An Add to an id without a session was answered not found while another
\* session and its message are stored.
C4_Witness ==
    /\ resp.op = "add_message"
    /\ resp.status = 404
    /\ resp.faults = {}
    /\ ~Exists(resp.sid)
    /\ chat_sessions # {}
    /\ chat_messages # <<>>

WriteRoutes ==
    {"create_session", "update_session", "toggle_favorite", "delete_session"}

\* C5: a storage fault at any statement of Create, Update, ToggleFavorite or
\* Delete, the read of the target session included, is answered 500; it is
\* never answered 404 for a session that exists.
C5_WriteFaultSurfaces ==
    (resp.op \in WriteRoutes /\ resp.invoked) =>
        /\ (resp.faults # {} /\ (resp.op = "create_session" \/ Exists(resp.sid)))
               => resp.status = 500
        /\ resp.status = 404 => ~Exists(resp.sid)

\* C6: Get never answers with a storage fault. A first read that faults is
\* rolled back and followed by exactly one more read in a new transaction;
\* the session is returned if that read finds it, not found if it finds
\* nothing or faults too. A call makes at most two reads.
C6_GetRetriesOnce ==
    (resp.op = "get_session" /\ resp.invoked) =>
        /\ resp.status \in {200, 404}
        /\ resp.faults \in ReadFaults
        /\ resp.reads = (IF "first" \in resp.faults THEN 2 ELSE 1)
        /\ resp.rollbacks = (IF "first" \in resp.faults THEN 1 ELSE 0)
        /\ resp.faults = {"first"} => resp.txn = "active"
        /\ IF "retry" \notin resp.faults /\ Exists(resp.sid)
           THEN resp.status = 200 /\ resp.body = <<CHOOSE s \in Row(resp.sid) : TRUE>>
           ELSE resp.status = 404 /\ resp.body = <<>>

\* A Get whose first read faulted returned the session its retry found.
C6_Witness ==
    /\ resp.op = "get_session"
    /\ resp.faults = {"first"}
    /\ resp.status = 200

Count(seq, x) == Cardinality({i \in 1..Len(seq) : seq[i] = x})

\* C7: without a storage fault, listing with skip k and limit n returns
\* exactly positions k+1 .. k+n (as far as they exist) of the session's
\* messages in an ascending created_at order, and total is the number of all
\* messages of the session whatever k and n (stated of a listing of the
\* store between two requests, and of every listing answered).
C7_Page ==
    /\ \A session_id \in SessionIds :
           Idle =>
           LET query == filter_session(chat_messages, session_id)
               n == Cardinality(MessagesOf(session_id))
           IN \A ordered \in order_by_created_at(query) :
                  /\ Len(ordered) = n
                  /\ \A i \in 1..n : Count(ordered, ordered[i]) = Count(query, ordered[i])
                  /\ \A i, j \in 1..n :
                         i < j => ordered[i].created_at <= ordered[j].created_at
                  /\ \A skip \in 0..MaxSkip, limit \in 1..MaxLimit :
                         LET r == get_messages(get_db, session_id, skip, limit, {},
                                               ordered)
                         IN /\ r.total = n
                            /\ Len(r.ret) = (IF skip >= n THEN 0
                                             ELSE Min(limit, n - skip))
                            /\ \A i \in 1..Len(r.ret) : r.ret[i] = ordered[skip + i]
    /\ (resp.op = "get_messages" /\ resp.invoked /\ resp.faults = {}) =>
           /\ resp.status = 200
           /\ resp.total = Cardinality(MessagesOf(resp.sid))
           /\ Len(resp.body) <= Min(MaxLimit, resp.total)

\* A listing returned a page of one message of a session that holds two.
C7_Witness ==
    /\ resp.op = "get_messages"
    /\ resp.faults = {}
    /\ resp.total = 2
    /\ Len(resp.body) = 1

\* C8: a listing returns the messages of a session in insertion order: the
\* page is a run of consecutive messages of the session in the order their
\* Adds completed, also when Adds obtained equal created_at values.
C8_InsertionOrder ==
    (resp.op = "get_messages" /\ resp.invoked /\ resp.faults = {}) =>
        LET query == filter_session(chat_messages, resp.sid)
            inserted == [i \in 1..Len(query) |-> to_response(query[i])]
        IN \E k \in 0..(Len(inserted) - Len(resp.body)) :
               resp.body = SubSeq(inserted, k + 1, k + Len(resp.body))

\* C9: a created session has an id no other session has and created_at equal
\* to its initial updated_at; every stored session has updated_at >=
\* created_at.
C9_SessionInvariants ==
    /\ (resp.op = "create_session" /\ resp.status = 200) =>
           /\ resp.body[1].created_at = resp.body[1].updated_at
           /\ \A s \in chat_sessions : s.id = resp.body[1].id => s = resp.body[1]
    /\ \A s \in chat_sessions : s.updated_at >= s.created_at
    /\ \A s1, s2 \in chat_sessions : s1.id = s2.id => s1 = s2

\* C10 as stated: every Update or ToggleFavorite that returns its session
\* returns it with updated_at at the time of the call, which is not earlier
\* than the last reading of the clock.
C10_AlwaysRefreshed ==
    (resp.op \in {"update_session", "toggle_favorite"} /\ resp.status = 200) =>
        resp.body[1].updated_at = now

\* C10 amended: an Update that changes the stored title and every
\* ToggleFavorite, when it returns its session, has set updated_at to the
\* clock value of the call; an Update with no field or with the stored title
\* returns the row unchanged, updated_at included; id and created_at stay;
\* Add and List of messages change no session row.
C10_RefreshedOnChange ==
    [][/\ (resp'.op \in {"update_session", "toggle_favorite"} /\ resp'.status = 200) =>
              /\ Exists(resp'.sid)
              /\ LET old == CHOOSE s \in Row(resp'.sid) : TRUE
                     new == resp'.body[1]
                 IN /\ chat_sessions' = (chat_sessions \ {old}) \cup {new}
                    /\ new.id = old.id
                    /\ new.created_at = old.created_at
                    /\ resp'.op = "toggle_favorite" =>
                           new.is_favorite # old.is_favorite
                    /\ IF new.title # old.title \/ new.is_favorite # old.is_favorite
                       THEN new.updated_at = now' /\ now' >= now
                       ELSE new = old /\ now' = now
       /\ resp'.op \in {"add_message", "get_messages"} =>
              chat_sessions' = chat_sessions
      ]_vars

\* An Update that changed nothing returned the session with an updated_at
\* older than the clock.
C10_Witness ==
    /\ resp.op = "update_session"
    /\ resp.status = 200
    /\ resp.faults = {}
    /\ resp.body[1].updated_at < now

\* C11: for every document supplied as context_metadata to an Add on an
\* existing session, the message Add returns and the same message in a later
\* listing carry a context_metadata equal to the supplied document; with no
\* metadata supplied the stored and the returned value are null.
C11_MetadataRoundTrip ==
    Idle =>
    \A session_id \in SessionIds, message_data \in MessageBodies,
       t \in now..MaxTime :
        Exists(session_id) =>
            LET r == add_message(get_db, session_id, message_data, {}, t)
                returned == to_response(r.ret[1])
                db2 == next_db(r)
                query == filter_session(db2.messages, session_id)
            IN /\ status_or_404(r) = 200
               /\ returned.context_metadata = message_data.context_metadata
               /\ message_data.context_metadata = <<>> =>
                      r.ret[1].context_metadata = <<>>
               /\ \A ordered \in order_by_created_at(query) :
                      LET l == get_messages(db2, session_id, 0, Len(ordered), {},
                                            ordered)
                      IN \E i \in 1..Len(l.ret) :
                             /\ to_response(l.ret[i]) = returned
                             /\ to_response(l.ret[i]).context_metadata
                                    = message_data.context_metadata

\* C12: once rate_limit_per_minute requests of a client address have been
\* accepted within a minute, a further request of that minute reaches no
\* route handler (and so no access-layer operation): it is answered 429.
C12_RateLimited ==
    /\ resp.invoked => window <= rate_limit_per_minute
    /\ window > rate_limit_per_minute => resp.status = 429

\* C13: whenever storage faults occurred in a request's access-layer
\* operation, every faulted statement was followed by a rollback before the
\* operation returned, and the operation did not return with the database
\* session in the transaction a faulted statement ran in.  (A transaction
\* begun after the rollback by a retry that succeeded is not counted as left
\* open: every successful read returns in one.)
C13_RolledBack ==
    (resp.invoked /\ resp.faults # {}) =>
        /\ resp.rollbacks = Cardinality(resp.faults)
        /\ resp.txn # "failed"

\* The Add requests and the Delete requests that found session_id and have
\* returned.
Returned(op, session_id) ==
    {p \in Procs : /\ req[p].op = op
                   /\ req[p].sid = session_id
                   /\ req[p].pc = "returned"
                   /\ req[p].status # 404}

\* No stored message references a session that is not stored.
Referential == \A i \in 1..Len(chat_messages) : Exists(chat_messages[i].session_id)

\* C14 as stated: once an Add and a Delete of the same session, run at the
\* same time in their own transactions, have both returned, no stored
\* message references a missing session: the new message was never inserted,
\* or it was removed together with the session.
C14_NeverOrRemoved ==
    \A session_id \in SessionIds :
        \A a \in Returned("add_message", session_id),
           d \in Returned("delete_session", session_id) :
            /\ Referential
            /\ \/ ~req[a].inserted
               \/ ~Exists(session_id) /\ MessagesOf(session_id) = {}

\* C14 amended: ... the new message was never inserted, or it was removed
\* together with the session, or the Delete failed on the foreign key with a
\* server error and the session and its messages are all kept.
C14_ReferentialIntegrity ==
    \A session_id \in SessionIds :
        \A a \in Returned("add_message", session_id),
           d \in Returned("delete_session", session_id) :
            /\ Referential
            /\ \/ ~req[a].inserted
               \/ ~Exists(session_id) /\ MessagesOf(session_id) = {}
               \/ /\ \E f \in Returned("delete_session", session_id) :
                         req[f].status = 500
                  /\ Exists(session_id)
                  /\ MessagesOf(session_id) # {}

\* An Add and a Delete of one session have both returned: the Add answered
\* with its message, the Delete with a server error, and the session and the
\* message are stored.
C14_Witness ==
    \E a, d \in Procs :
        /\ req[a].op = "add_message" /\ req[a].pc = "returned"
        /\ req[a].status = 200 /\ req[a].inserted
        /\ req[d].op = "delete_session" /\ req[d].pc = "returned"
        /\ req[d].status = 500 /\ req[d].sid = req[a].sid
        /\ Exists(req[a].sid)
        /\ MessagesOf(req[a].sid) # {}

\* C15: once all the ToggleFavorite calls sent at the same time for one
\* existing session have returned successfully, the stored is_favorite is the
\* initial value (FALSE, the column default: nothing else changes it here) if
\* their number is even and its negation if it is odd.
C15_NoToggleLost ==
    \A session_id \in SessionIds :
        LET calls == {p \in Procs : /\ req[p].op = "toggle_favorite"
                                    /\ req[p].sid = session_id}
        IN (/\ calls # {}
            /\ Exists(session_id)
            /\ \A p \in calls : req[p].pc = "returned" /\ req[p].status = 200) =>
               \A s \in Row(session_id) :
                   s.is_favorite = (Cardinality(calls) % 2 = 1)

====
